---- MODULE Spec2Model ----
(***************************************************************************)
(* Model of the WB_FBS_bot order monitor: OrderMonitor (monitor/           *)
(* order_monitor.py) over DatabaseManager (database/db_manager.py), the    *)
(* order source WBAPIClient (api/wb_client.py) and the Notifier            *)
(* TelegramBot (telegram/bot.py).                                          *)
(***************************************************************************)
EXTENDS Integers, Sequences, FiniteSets, TLC

\* ------------------------------------------------------------------ bounds
MaxOrders == 2          \* distinct order uids the order source can return
MaxDay == 2             \* calendar days the clock runs through
MaxDeliveries == 2      \* the delivery counters saturate here
MaxRestarts == 1        \* process restarts per monitor
PollInterval == 2       \* config.wb_poll_interval, in one-second sleeps
MaxRetries == 3         \* retry_db_operation: largest max_retries drawn
MaxDelay == 2           \* retry_db_operation: largest delay drawn (in 0.1 s)
MaxBackoff == 2         \* retry_db_operation: largest backoff drawn
MaxIds == 41            \* longest nm_ids list of the views fetch
MaxFailedCycles == 2    \* the count of failed cycles in a row saturates here

\* ------------------------------------------------------- program constants
max_consecutive_errors == 5
ReportCheckEvery == 30
CriticalSeconds == 10
CooldownSeconds == 10
batch_size == 20
client_max_retries == 3
retry_delay == 10
DefaultRetryAfter == 30
WindowSeconds == 5

Procs == {1, 2}
Main == 1
Orders == 1..MaxOrders
Days == 1..MaxDay
Reports == {"daily", "views"}

\* Wall-clock instants (hour, minute, second) of one day, Moscow time, in
\* increasing order; each stands for the stretch of time up to the next one.
TimePoints ==
    << <<0, 0, 0>>, <<0, 0, 5>>, <<5, 0, 4>>, <<5, 0, 9>>, <<12, 0, 0>> >>
NTP == Len(TimePoints)

\* strftime('%Y-%m-%d') of the date of day d
DateStrings ==
    << "2024-03-01", "2024-03-02", "2024-03-03", "2024-03-04", "2024-03-05" >>
DateStr(d) == DateStrings[d]

None == "<None>"

Min(a, b) == IF a < b THEN a ELSE b
Range(s) == { s[i] : i \in 1..Len(s) }

\* All lists of distinct order uids (what one poll of the source can return)
OrderLists ==
    { s \in UNION { [1..n -> Orders] : n \in 0..MaxOrders } :
        \A i, j \in 1..Len(s) : i # j => s[i] # s[j] }

\* -------------------------------------------------------------- the store
\* processed_orders: order_uid -> processed_at (0: no row)
is_order_processed_Inverted(po, uid) == po[uid] = 0
is_order_processed(po, uid) == po[uid] # 0

mark_order_as_processed(po, uid, now) == [po EXCEPT ![uid] = now]

\* bot_settings: a function whose domain is the set of keys that have a row
get_setting(bs, key) == IF key \in DOMAIN bs THEN bs[key] ELSE None

set_setting(bs, key, value) ==
    [k \in (DOMAIN bs) \cup {key} |-> IF k = key THEN value ELSE bs[k]]

\* set_setting_if_not_exists: the atomic claim. It persists the value and
\* returns true only if no prior value existed for the key.
set_setting_if_not_exists_result_Always(bs, key) == TRUE
set_setting_if_not_exists_result(bs, key) == key \notin DOMAIN bs

set_setting_if_not_exists(bs, key, value) ==
    IF key \notin DOMAIN bs THEN set_setting(bs, key, value) ELSE bs

\* _init_database: CREATE TABLE IF NOT EXISTS keeps the rows of both tables
init_database_settings_Recreate(bs) == << >>
init_database_settings(bs) == bs
init_database_orders(po) == po

ReportKey_Shared(r) == "last_report_date"
ReportKey(r) ==
    IF r = "daily" THEN "last_daily_report_date" ELSE "last_views_report_date"

\* ------------------------------------------------------------ report windows
InDailyWindow_Inclusive(now) ==
    now[1] = 0 /\ now[2] = 0 /\ 0 <= now[3] /\ now[3] <= WindowSeconds

InDailyWindow(now) ==
    now[1] = 0 /\ now[2] = 0 /\ 0 <= now[3] /\ now[3] < WindowSeconds

InViewsWindow(now) ==
    now[1] = 5 /\ now[2] = 0 /\ 0 <= now[3] /\ now[3] < WindowSeconds

\* start(): whether this sleep tick calls the report check
ShouldCheck(now, slept, last) ==
    \/ (now[1] \in {0, 5} /\ now[2] = 0 /\ now[3] < CriticalSeconds)
    \/ slept - last >= ReportCheckEvery

\* _process_orders: the index the loop goes to after the per-order handler
\* caught an exception (continue)
AfterOrderError_Break(i, ol) == Len(ol) + 1
AfterOrderError(i, ol) == i + 1

\* _check_and_send_daily_report: `if self.telegram_bot.send_daily_statistics(`
\* `...):` / `send_product_views_report(...)` selects the success branch
ReportSendOk_Inverted(res) == res = "false"
ReportSendOk(res) == res = "true"

\* _process_orders: `if self.telegram_bot.send_order_notification(order):`
\* guards the mark; res is what the Notifier did (true, false, raise)
NotifyOk_Unchecked(res) == res # "raise"
NotifyOk(res) == res = "true"

\* ------------------------------------------------------------------- state
VARIABLES
    day, tp,                \* the wall clock: day number and index in TimePoints
    processed_orders,       \* table processed_orders
    bot_settings,           \* table bot_settings
    delivered,              \* Notifier: successful order notifications per uid
    report_sent,            \* Notifier: successful report sends per report, day
    report_senders,         \* which process incarnation sent which report
    pc,                     \* per process: position in the code
    is_running,             \* OrderMonitor.is_running
    lock,                   \* OrderMonitor._report_sending_lock
    consecutive_errors,     \* start(): consecutive_errors
    orders, idx,            \* _process_orders: the list polled and the loop index
    total_slept, last_report_check,   \* start(): the sleep loop's counters
    chk,                    \* _check_and_send_daily_report: the running check
    epoch,                  \* incarnation number of each monitor process
    run,                    \* per process: what the current _process_orders did
    retry,                  \* one call of a retry_db_operation wrapper
    fetch                   \* one views fetch of the views report

vars == << day, tp, processed_orders, bot_settings, delivered, report_sent,
           report_senders, pc, is_running, lock, consecutive_errors, orders,
           idx, total_slept, last_report_check, chk, epoch, run, retry, fetch >>

auxVars == << retry, fetch >>
clockVars == << day, tp >>
storeVars == << processed_orders, bot_settings >>
notifierVars == << delivered, report_sent, report_senders >>
loopVars == << consecutive_errors, total_slept, last_report_check >>

Now == TimePoints[tp]
Clock == (day - 1) * NTP + tp

NoCheck ==
    [report |-> "none", today |-> 0, ret |-> "none", claimed |-> FALSE,
     failed |-> FALSE, exc |-> FALSE, exit |-> "none"]

\* What the current _process_orders run did with each order, the orders
\* whose notification failed in the run before it, and how many cycles of
\* the loop in a row have ended in its `except`
NoRun ==
    [status |-> [o \in Orders |-> "none"], prev_failed |-> {},
     failed_cycles |-> 0]

\* No wrapped store call is being followed
NoRetry ==
    [op |-> "none", max_retries |-> 0, delay |-> 0, backoff |-> 0,
     outcomes |-> << >>,
     attempt |-> 0, current_delay |-> 0, calls |-> 0, slept |-> << >>,
     pc |-> "idle", result |-> "none"]

InitMonitor(t) ==
    /\ day = 1 /\ tp = t
    /\ processed_orders = [o \in Orders |-> 0]
    /\ bot_settings = << >>
    /\ delivered = [o \in Orders |-> 0]
    /\ report_sent = [r \in Reports |-> [d \in Days |-> 0]]
    /\ report_senders = {}
    /\ pc = [p \in Procs |-> "off"]
    /\ is_running = [p \in Procs |-> FALSE]
    /\ lock = [p \in Procs |-> FALSE]
    /\ consecutive_errors = [p \in Procs |-> 0]
    /\ orders = [p \in Procs |-> << >>]
    /\ idx = [p \in Procs |-> 1]
    /\ total_slept = [p \in Procs |-> 0]
    /\ last_report_check = [p \in Procs |-> 0]
    /\ chk = [p \in Procs |-> NoCheck]
    /\ epoch = [p \in Procs |-> 0]
    /\ run = [p \in Procs |-> NoRun]

\* No views fetch is being followed
NoFetch ==
    [len |-> 0, shared |-> {}, pc |-> "idle", i |-> 0, batch |-> << 0, 0 >>,
     attempt |-> 0, requests |-> 0, answers |-> << >>, slept |-> << >>,
     chunks |-> << >>, failed |-> {}, views_stats |-> << >>, result |-> "none"]

InitAt(t) == InitMonitor(t) /\ retry = NoRetry /\ fetch = NoFetch

\* A fresh database, no process yet, midnight of day 1
Init == InitAt(1)

\* ------------------------------------------------------------------- clock
\* Positions inside _check_and_send_daily_report past its window test
InCheck == {"chk_get", "chk_claim", "chk_build", "chk_send", "chk_rollback",
            "chk_except", "chk_finally"}

\* Time passes, at any point of the code. A report check starts within
\* seconds of 00:00 or 05:00 and is a few store and network calls with
\* timeouts, so no check is still running at the next midnight.
Tick ==
    /\ \/ tp < NTP /\ tp' = tp + 1 /\ day' = day
       \/ /\ tp = NTP /\ day < MaxDay
          /\ \A p \in Procs : pc[p] \notin InCheck
          /\ tp' = 1 /\ day' = day + 1
    /\ UNCHANGED << auxVars, storeVars, notifierVars, pc, is_running, lock, loopVars,
                    orders, idx, chk, epoch, run >>

\* ------------------------------------------------- process start and stop
\* OrderMonitor.__init__ followed by start() up to the monitoring loop
StartMonitor(p) ==
    /\ pc[p] = "off"
    /\ \E chat_id_set, wb_ok, telegram_ok \in BOOLEAN :
         /\ is_running' = [is_running EXCEPT ![p] = chat_id_set]
         /\ pc' = [pc EXCEPT ![p] =
                     IF chat_id_set /\ wb_ok /\ telegram_ok
                     THEN "loop" ELSE "stopped"]
    /\ bot_settings' = init_database_settings(bot_settings)
    /\ processed_orders' = init_database_orders(processed_orders)
    /\ lock' = [lock EXCEPT ![p] = FALSE]
    /\ UNCHANGED << auxVars, clockVars, notifierVars, loopVars, orders, idx, chk,
                    epoch, run >>

\* The process dies (kill, crash, reboot): its memory is gone, the store stays
Kill(p) ==
    /\ pc[p] # "off"
    /\ epoch[p] < MaxRestarts
    /\ epoch' = [epoch EXCEPT ![p] = @ + 1]
    /\ pc' = [pc EXCEPT ![p] = "off"]
    /\ is_running' = [is_running EXCEPT ![p] = FALSE]
    /\ lock' = [lock EXCEPT ![p] = FALSE]
    /\ consecutive_errors' = [consecutive_errors EXCEPT ![p] = 0]
    /\ orders' = [orders EXCEPT ![p] = << >>]
    /\ idx' = [idx EXCEPT ![p] = 1]
    /\ total_slept' = [total_slept EXCEPT ![p] = 0]
    /\ last_report_check' = [last_report_check EXCEPT ![p] = 0]
    /\ chk' = [chk EXCEPT ![p] = NoCheck]
    /\ run' = [run EXCEPT ![p] = NoRun]
    /\ UNCHANGED << auxVars, clockVars, storeVars, notifierVars >>

\* stop(), called while start() is running
Stop(p) ==
    /\ pc[p] \notin {"off", "stopped"}
    /\ is_running[p]
    /\ is_running' = [is_running EXCEPT ![p] = FALSE]
    /\ UNCHANGED << auxVars, clockVars, storeVars, notifierVars, pc, lock, loopVars,
                    orders, idx, chk, epoch, run >>

\* KeyboardInterrupt inside start(): no `except Exception` catches it, the
\* `finally` of a running check releases the lock, start() calls stop()
KeyboardInterrupt(p) ==
    /\ pc[p] \notin {"off", "stopped"}
    /\ is_running' = [is_running EXCEPT ![p] = FALSE]
    /\ lock' = [lock EXCEPT ![p] = FALSE]
    /\ pc' = [pc EXCEPT ![p] = "stopped"]
    /\ UNCHANGED << auxVars, clockVars, storeVars, notifierVars, loopVars, orders,
                    idx, chk, epoch, run >>

\* ------------------------------------------------------- _process_orders
NextOrderPc(i, ol) == IF i > Len(ol) THEN "run_done" ELSE "order_check"

\* `while self.is_running:` and the head of _process_orders: get_new_orders
\* returns one of `lists` or raises (caught by _process_orders itself)
ProcessOrders(p, lists) ==
    /\ pc[p] = "loop"
    /\ IF ~is_running[p]
       THEN /\ pc' = [pc EXCEPT ![p] = "stopped"]
            /\ UNCHANGED << orders, idx >>
       ELSE \E ol \in lists, raises \in BOOLEAN :
              /\ orders' = [orders EXCEPT ![p] = IF raises THEN << >> ELSE ol]
              /\ idx' = [idx EXCEPT ![p] = 1]
              /\ pc' = [pc EXCEPT ![p] =
                          IF raises THEN "run_done" ELSE NextOrderPc(1, ol)]
    /\ UNCHANGED << auxVars, clockVars, storeVars, notifierVars, is_running, lock,
                    loopVars, chk, epoch, run >>

\* is_order_processed(order.order_uid)
OrderCheck(p) ==
    /\ pc[p] = "order_check"
    /\ LET o == orders[p][idx[p]] IN
       \E raises \in BOOLEAN :
         IF raises
         THEN /\ run' = [run EXCEPT ![p].status[o] = "check_raised"]
              /\ idx' = [idx EXCEPT ![p] = AfterOrderError(idx[p], orders[p])]
              /\ pc' = [pc EXCEPT ![p] =
                          NextOrderPc(AfterOrderError(idx[p], orders[p]), orders[p])]
         ELSE IF is_order_processed(processed_orders, o)
         THEN /\ run' = [run EXCEPT ![p].status[o] = "skipped"]
              /\ idx' = [idx EXCEPT ![p] = @ + 1]
              /\ pc' = [pc EXCEPT ![p] = NextOrderPc(idx[p] + 1, orders[p])]
         ELSE /\ run' = run
              /\ idx' = idx
              /\ pc' = [pc EXCEPT ![p] = "order_send"]
    /\ UNCHANGED << auxVars, clockVars, storeVars, notifierVars, is_running, lock,
                    loopVars, orders, chk, epoch >>

\* send_order_notification(order): True, False, or an exception
OrderSend(p) ==
    /\ pc[p] = "order_send"
    /\ LET o == orders[p][idx[p]] IN
       \E res \in {"true", "false", "raise"} :
         /\ delivered' = [delivered EXCEPT ![o] =
                             IF res = "true" THEN Min(@ + 1, MaxDeliveries) ELSE @]
         /\ run' = [run EXCEPT ![p].status[o] =
                       IF res = "true" THEN "sent" ELSE "send_failed"]
         /\ IF NotifyOk(res)
            THEN /\ idx' = idx
                 /\ pc' = [pc EXCEPT ![p] = "order_mark"]
            ELSE LET n == IF res = "false" THEN idx[p] + 1
                          ELSE AfterOrderError(idx[p], orders[p]) IN
                   /\ idx' = [idx EXCEPT ![p] = n]
                   /\ pc' = [pc EXCEPT ![p] = NextOrderPc(n, orders[p])]
    /\ UNCHANGED << auxVars, clockVars, storeVars, report_sent, report_senders,
                    is_running, lock, loopVars, orders, chk, epoch >>

\* mark_order_as_processed(order_uid, order_id, created_at)
OrderMark(p) ==
    /\ pc[p] = "order_mark"
    /\ LET o == orders[p][idx[p]] IN
       \E raises \in BOOLEAN :
         IF raises
         THEN /\ processed_orders' = processed_orders
              /\ run' = [run EXCEPT ![p].status[o] = "mark_failed"]
              /\ idx' = [idx EXCEPT ![p] = AfterOrderError(idx[p], orders[p])]
              /\ pc' = [pc EXCEPT ![p] =
                          NextOrderPc(AfterOrderError(idx[p], orders[p]), orders[p])]
         ELSE /\ processed_orders' =
                    mark_order_as_processed(processed_orders, o, Clock)
              /\ run' = run
              /\ idx' = [idx EXCEPT ![p] = @ + 1]
              /\ pc' = [pc EXCEPT ![p] = NextOrderPc(idx[p] + 1, orders[p])]
    /\ UNCHANGED << auxVars, clockVars, bot_settings, notifierVars, is_running, lock,
                    loopVars, orders, chk, epoch >>

\* ------------------------------------------------------ the loop of start()
\* _process_orders returned (its locals are gone): reset the error counter
\* and the sleep counters, then make the first report check
AfterProcessOrders(p) ==
    /\ pc[p] = "run_done"
    /\ consecutive_errors' = [consecutive_errors EXCEPT ![p] = 0]
    /\ total_slept' = [total_slept EXCEPT ![p] = 0]
    /\ last_report_check' = [last_report_check EXCEPT ![p] = 0]
    /\ orders' = [orders EXCEPT ![p] = << >>]
    /\ idx' = [idx EXCEPT ![p] = 1]
    /\ run' = [run EXCEPT ![p] =
                 [NoRun EXCEPT !.prev_failed =
                    { o \in Orders : run[p].status[o] = "send_failed" },
                               !.failed_cycles = run[p].failed_cycles]]
    /\ chk' = [chk EXCEPT ![p] = [NoCheck EXCEPT !.ret = "first"]]
    /\ pc' = [pc EXCEPT ![p] = "chk_begin"]
    /\ UNCHANGED << auxVars, clockVars, storeVars, notifierVars, is_running, lock,
                    epoch >>

\* One turn of the sleep loop: sleep a second, maybe call the report check;
\* when the loop is left its counters are dead
Sleep(p) ==
    /\ pc[p] = "sleep"
    /\ IF total_slept[p] < PollInterval /\ is_running[p]
       THEN /\ total_slept' = [total_slept EXCEPT ![p] = @ + 1]
            /\ last_report_check' = last_report_check
            /\ IF ShouldCheck(Now, total_slept[p] + 1, last_report_check[p])
               THEN /\ chk' = [chk EXCEPT ![p] = [NoCheck EXCEPT !.ret = "tick"]]
                    /\ pc' = [pc EXCEPT ![p] = "chk_begin"]
               ELSE UNCHANGED << chk, pc >>
            /\ run' = run
       ELSE /\ pc' = [pc EXCEPT ![p] = "loop"]
            /\ total_slept' = [total_slept EXCEPT ![p] = 0]
            /\ last_report_check' = [last_report_check EXCEPT ![p] = 0]
            /\ chk' = chk
            /\ run' = [run EXCEPT ![p].failed_cycles = 0]
    /\ UNCHANGED << auxVars, clockVars, storeVars, notifierVars, is_running, lock,
                    consecutive_errors, orders, idx, epoch >>

\* `except Exception` of the loop body
CycleError(p) ==
    /\ pc[p] = "cycle_error"
    /\ consecutive_errors' = [consecutive_errors EXCEPT ![p] = @ + 1]
    /\ IF consecutive_errors[p] + 1 >= max_consecutive_errors
       THEN /\ is_running' = [is_running EXCEPT ![p] = FALSE]
            /\ pc' = [pc EXCEPT ![p] = "stopped"]
       ELSE /\ is_running' = is_running
            /\ pc' = [pc EXCEPT ![p] = "cooldown"]
    /\ run' = [run EXCEPT ![p].failed_cycles = Min(@ + 1, MaxFailedCycles)]
    /\ UNCHANGED << auxVars, clockVars, storeVars, notifierVars, lock, total_slept,
                    last_report_check, orders, idx, chk, epoch >>

\* `time.sleep(10)` at the end of the `except`: one step per second slept
\* (counted in total_slept, which is dead here), then back to the loop head
Cooldown(p) ==
    /\ pc[p] = "cooldown"
    /\ IF total_slept[p] < CooldownSeconds
       THEN /\ total_slept' = [total_slept EXCEPT ![p] = @ + 1]
            /\ pc' = pc
       ELSE /\ total_slept' = [total_slept EXCEPT ![p] = 0]
            /\ pc' = [pc EXCEPT ![p] = "loop"]
    /\ UNCHANGED << auxVars, clockVars, storeVars, notifierVars, is_running, lock,
                    consecutive_errors, last_report_check, orders, idx, chk,
                    epoch, run >>

\* ------------------------------------------ _check_and_send_daily_report
ChkExit(p, how) == [chk EXCEPT ![p].exit = how]

\* Entry: read the clock, test the in-process lock and the two windows
CheckBegin(p) ==
    /\ pc[p] = "chk_begin"
    /\ IF lock[p]
       THEN /\ chk' = ChkExit(p, "locked")
            /\ pc' = [pc EXCEPT ![p] = "chk_done"]
       ELSE IF InDailyWindow(Now)
       THEN /\ chk' = [chk EXCEPT ![p].report = "daily", ![p].today = day]
            /\ pc' = [pc EXCEPT ![p] = "chk_get"]
       ELSE IF InViewsWindow(Now)
       THEN /\ chk' = [chk EXCEPT ![p].report = "views", ![p].today = day]
            /\ pc' = [pc EXCEPT ![p] = "chk_get"]
       ELSE /\ chk' = ChkExit(p, "outside")
            /\ pc' = [pc EXCEPT ![p] = "chk_done"]
    /\ UNCHANGED << auxVars, clockVars, storeVars, notifierVars, is_running, lock,
                    loopVars, orders, idx, epoch, run >>

\* get_setting(key) and the test against today's date string
CheckGetSetting(p) ==
    /\ pc[p] = "chk_get"
    /\ \E raises \in BOOLEAN :
         IF raises
         THEN /\ chk' = [chk EXCEPT ![p].exc = TRUE, ![p].exit = "get_failed"]
              /\ pc' = [pc EXCEPT ![p] = "chk_done"]
         ELSE IF get_setting(bot_settings, ReportKey(chk[p].report))
                   = DateStr(chk[p].today)
         THEN /\ chk' = ChkExit(p, "already_sent")
              /\ pc' = [pc EXCEPT ![p] = "chk_done"]
         ELSE /\ chk' = chk
              /\ pc' = [pc EXCEPT ![p] = "chk_claim"]
    /\ UNCHANGED << auxVars, clockVars, storeVars, notifierVars, is_running, lock,
                    loopVars, orders, idx, epoch, run >>

\* set_setting_if_not_exists(key, today): the claim; on success take the lock
CheckClaim(p) ==
    /\ pc[p] = "chk_claim"
    /\ LET key == ReportKey(chk[p].report) IN
       \E raises \in BOOLEAN :
         IF raises
         THEN /\ chk' = [chk EXCEPT ![p].exc = TRUE, ![p].exit = "claim_failed"]
              /\ pc' = [pc EXCEPT ![p] = "chk_done"]
              /\ UNCHANGED << bot_settings, lock >>
         ELSE IF set_setting_if_not_exists_result(bot_settings, key)
         THEN /\ bot_settings' = set_setting_if_not_exists(
                                     bot_settings, key, DateStr(chk[p].today))
              /\ lock' = [lock EXCEPT ![p] = TRUE]
              /\ chk' = [chk EXCEPT ![p].claimed = TRUE]
              /\ pc' = [pc EXCEPT ![p] = "chk_build"]
         ELSE /\ chk' = ChkExit(p, "claim_lost")
              /\ pc' = [pc EXCEPT ![p] = "chk_done"]
              /\ UNCHANGED << bot_settings, lock >>
    /\ UNCHANGED << auxVars, clockVars, processed_orders, notifierVars, is_running,
                    loopVars, orders, idx, epoch, run >>

\* Building the report: get_orders_count_for_date for the orders report; the
\* card list and the views fetch for the views report, which yields data, an
\* empty result, or an exception
CheckBuild(p) ==
    /\ pc[p] = "chk_build"
    /\ \E out \in {"data", "empty", "raise"} :
         /\ (chk[p].report = "daily") => (out # "empty")
         /\ IF out = "data"
            THEN /\ chk' = chk
                 /\ pc' = [pc EXCEPT ![p] = "chk_send"]
            ELSE IF out = "empty"
            THEN /\ chk' = ChkExit(p, "no_data")
                 /\ pc' = [pc EXCEPT ![p] = "chk_finally"]
            ELSE /\ chk' = [chk EXCEPT ![p].failed = TRUE]
                 /\ pc' = [pc EXCEPT ![p] = "chk_except"]
    /\ UNCHANGED << auxVars, clockVars, storeVars, notifierVars, is_running, lock,
                    loopVars, orders, idx, epoch, run >>

\* send_daily_statistics / send_product_views_report: True, False, exception
CheckSend(p) ==
    /\ pc[p] = "chk_send"
    /\ LET r == chk[p].report
           d == chk[p].today IN
       \E res \in {"true", "false", "raise"} :
         /\ IF res = "true"
            THEN /\ report_sent' =
                       [report_sent EXCEPT ![r][d] = Min(@ + 1, MaxDeliveries)]
                 /\ report_senders' =
                       report_senders \cup {<<r, d, p, epoch[p]>>}
            ELSE UNCHANGED << report_sent, report_senders >>
         /\ IF res = "raise"
            THEN /\ chk' = [chk EXCEPT ![p].failed = TRUE]
                 /\ pc' = [pc EXCEPT ![p] = "chk_except"]
            ELSE IF ReportSendOk(res)
            THEN /\ chk' = ChkExit(p, "sent")
                 /\ pc' = [pc EXCEPT ![p] = "chk_finally"]
            ELSE /\ chk' = [chk EXCEPT ![p].failed = (res = "false")]
                 /\ pc' = [pc EXCEPT ![p] = "chk_rollback"]
    /\ UNCHANGED << auxVars, clockVars, storeVars, delivered, is_running, lock,
                    loopVars, orders, idx, epoch, run >>

\* The send returned False: set_setting(key, "")
CheckRollback(p) ==
    /\ pc[p] = "chk_rollback"
    /\ \E raises \in BOOLEAN :
         IF raises
         THEN /\ bot_settings' = bot_settings
              /\ chk' = chk
              /\ pc' = [pc EXCEPT ![p] = "chk_except"]
         ELSE /\ bot_settings' =
                    set_setting(bot_settings, ReportKey(chk[p].report), "")
              /\ chk' = ChkExit(p, "rolled_back")
              /\ pc' = [pc EXCEPT ![p] = "chk_finally"]
    /\ UNCHANGED << auxVars, clockVars, processed_orders, notifierVars, is_running,
                    lock, loopVars, orders, idx, epoch, run >>

\* `except Exception`: set_setting(key, ""); if that raises too, the
\* exception leaves the check
CheckExcept(p) ==
    /\ pc[p] = "chk_except"
    /\ \E raises \in BOOLEAN :
         IF raises
         THEN /\ bot_settings' = bot_settings
              /\ chk' = [chk EXCEPT ![p].exc = TRUE,
                                    ![p].exit = "rollback_failed"]
         ELSE /\ bot_settings' =
                    set_setting(bot_settings, ReportKey(chk[p].report), "")
              /\ chk' = ChkExit(p, "rolled_back_in_except")
    /\ pc' = [pc EXCEPT ![p] = "chk_finally"]
    /\ UNCHANGED << auxVars, clockVars, processed_orders, notifierVars, is_running,
                    lock, loopVars, orders, idx, epoch, run >>

\* `self._report_sending_lock = False`
ReleaseLock_Keep(l, p) == l
ReleaseLock(l, p) == [l EXCEPT ![p] = FALSE]

\* `finally`: release the lock
CheckFinally(p) ==
    /\ pc[p] = "chk_finally"
    /\ lock' = ReleaseLock(lock, p)
    /\ pc' = [pc EXCEPT ![p] = "chk_done"]
    /\ UNCHANGED << auxVars, clockVars, storeVars, notifierVars, is_running, loopVars,
                    orders, idx, chk, epoch, run >>

\* The check is over (its locals are gone): back in the sleep loop of
\* start(), or in its `except` with the loop's counters dead
CheckReturn(p) ==
    /\ pc[p] = "chk_done"
    /\ pc' = [pc EXCEPT ![p] = IF chk[p].exc THEN "cycle_error" ELSE "sleep"]
    /\ last_report_check' =
         [last_report_check EXCEPT ![p] =
            IF chk[p].exc THEN 0
            ELSE IF chk[p].ret = "tick" THEN total_slept[p] ELSE @]
    /\ total_slept' = [total_slept EXCEPT ![p] = IF chk[p].exc THEN 0 ELSE @]
    /\ chk' = [chk EXCEPT ![p] = NoCheck]
    /\ UNCHANGED << auxVars, clockVars, storeVars, notifierVars, is_running, lock,
                    consecutive_errors, orders, idx, epoch, run >>

\* ------------------------------------------------------------ specification
\* The steps of the report check past its window test
ReportStep(p) ==
    \/ CheckGetSetting(p)
    \/ CheckClaim(p)
    \/ CheckBuild(p)
    \/ CheckSend(p)
    \/ CheckRollback(p)
    \/ CheckExcept(p)
    \/ CheckFinally(p)

\* The steps of _process_orders past get_new_orders
OrderStep(p) ==
    \/ OrderCheck(p)
    \/ OrderSend(p)
    \/ OrderMark(p)

\* The steps of start() around them, and the process's life cycle
LoopStep(p) ==
    \/ StartMonitor(p)
    \/ Kill(p)
    \/ Stop(p)
    \/ KeyboardInterrupt(p)
    \/ AfterProcessOrders(p)
    \/ Sleep(p)
    \/ CheckBegin(p)
    \/ CheckReturn(p)

\* Order ingestion: one monitor process (restarts included) polling an order
\* source that returns any list, at a time of day outside the report windows
InitOrders == InitAt(NTP)
NextOrders ==
    \/ ProcessOrders(Main, OrderLists)
    \/ OrderStep(Main)
    \/ LoopStep(Main)

SpecOrders == InitOrders /\ [][NextOrders]_vars

\* Report scheduling: one monitor process (restarts included) through the
\* days, with an order source that has no orders to return
NextReports ==
    \/ Tick
    \/ ProcessOrders(Main, { << >> })
    \/ LoopStep(Main)
    \/ ReportStep(Main)
    \/ CycleError(Main)
    \/ Cooldown(Main)

SpecReports == Init /\ [][NextReports]_vars

\* Order ingestion with the scheduling the code has: the monitor is never
\* stopped or killed, the loop keeps taking steps, every poll that does not
\* raise returns all the orders, and get_new_orders, is_order_processed of an
\* order without a record, the Notifier and mark_order_as_processed each
\* succeed again and again when they are called. The clock stands outside
\* the report windows.
AllOrders == [i \in 1..MaxOrders |-> i]

PollOk == ProcessOrders(Main, {AllOrders}) /\ pc'[Main] = "order_check"
OrderCheckOk == OrderCheck(Main) /\ pc'[Main] = "order_send"
OrderSendOk == OrderSend(Main) /\ pc'[Main] = "order_mark"
OrderMarkOk == OrderMark(Main) /\ processed_orders' # processed_orders

NextOrdersLive ==
    \/ StartMonitor(Main)
    \/ ProcessOrders(Main, {AllOrders})
    \/ OrderStep(Main)
    \/ AfterProcessOrders(Main)
    \/ Sleep(Main)
    \/ CheckBegin(Main)
    \/ CheckReturn(Main)

FairOrders ==
    /\ InitOrders /\ [][NextOrdersLive]_vars
    /\ WF_vars(NextOrdersLive)
    /\ SF_vars(PollOk)
    /\ SF_vars(OrderCheckOk)
    /\ SF_vars(OrderSendOk)
    /\ SF_vars(OrderMarkOk)

\* Two monitor processes on one store, both scheduling reports through one
\* day; neither is stopped or killed
TwoStep(p) ==
    \/ StartMonitor(p)
    \/ ProcessOrders(p, { << >> })
    \/ AfterProcessOrders(p)
    \/ Sleep(p)
    \/ CheckBegin(p)
    \/ CheckReturn(p)
    \/ ReportStep(p)
    \/ CycleError(p)
    \/ Cooldown(p)

\* Time passes within the day
TickToday == Tick /\ day' = day

NextTwo ==
    \/ TickToday
    \/ \E p \in Procs : TwoStep(p)

SpecTwo == Init /\ [][NextTwo]_vars

\* A systemically broken order source: get_new_orders raises on every poll.
\* The monitor is never stopped or killed and its loop keeps taking steps
\* while the clock runs through the days.
PollRaises == ProcessOrders(Main, OrderLists) /\ pc'[Main] = "run_done"

BrokenStep ==
    \/ StartMonitor(Main)
    \/ PollRaises
    \/ AfterProcessOrders(Main)
    \/ Sleep(Main)
    \/ CheckBegin(Main)
    \/ CheckReturn(Main)
    \/ ReportStep(Main)
    \/ CycleError(Main)
    \/ Cooldown(Main)

NextBroken ==
    \/ Tick
    \/ BrokenStep

FairBroken == Init /\ [][NextBroken]_vars /\ WF_vars(BrokenStep)

\* Two monitor processes on one store polling the same order source, which
\* returns one new order, while time passes (from 05:00:09 on, outside the
\* report windows); neither is stopped or killed
OneOrder == << 1 >>

RaceStep(p) ==
    \/ StartMonitor(p)
    \/ ProcessOrders(p, {OneOrder})
    \/ OrderStep(p)
    \/ AfterProcessOrders(p)
    \/ Sleep(p)
    \/ CheckBegin(p)
    \/ CheckReturn(p)

InitRace == InitAt(NTP - 1)
NextRace ==
    \/ TickToday
    \/ \E p \in Procs : RaceStep(p)

SpecRace == InitRace /\ [][NextRace]_vars

\* ---------------------------------------------------- retry_db_operation
\* What one call of the wrapped function does: it returns, or raises
\* sqlite3.OperationalError "database is locked", or raises
\* sqlite3.OperationalError "unable to open database file", or raises
\* anything else (FileNotFoundError, PermissionError, another
\* OperationalError)
Outcomes == {"ok", "locked", "unable_to_open", "other"}

\* The store operations the monitor calls that db_manager.py defines, and
\* those of them that carry the @retry_db_operation decorator
StoreOps ==
    {"is_order_processed", "mark_order_as_processed", "get_setting",
     "set_setting"}

RetriedOps == {"is_order_processed", "mark_order_as_processed"}

\* The decorator's arguments at both places (delay in units of 0.1 s)
DecoratorArgs == [max_retries |-> 3, delay |-> 1, backoff |-> 2]

\* `is_temporary` of the wrapper, for the 0-based attempt number
is_temporary(outcome, attempt, max_retries) ==
    \/ outcome = "locked"
    \/ (outcome = "unable_to_open" /\ attempt < max_retries - 1)

\* `current_delay *= backoff`
NextDelay_Additive(current_delay, backoff) == current_delay + backoff
NextDelay(current_delay, backoff) == current_delay * backoff

\* The wrapper is entered: last_exception = None, current_delay = delay,
\* the loop starts at attempt 0. outcomes[i] is what the i-th call of the
\* wrapped function will do.
RetryInputs ==
    { [NoRetry EXCEPT !.op = op,
                      !.max_retries = R, !.delay = D, !.backoff = B,
                      !.outcomes = o, !.current_delay = D, !.pc = "try"] :
        op \in RetriedOps,
        R \in 1..MaxRetries, D \in 1..MaxDelay, B \in 1..MaxBackoff,
        o \in UNION { [1..n -> Outcomes] : n \in 1..MaxRetries } }

\* One turn of `for attempt in range(max_retries)`: call the function and
\* handle what it does
RetryCall ==
    /\ retry.pc = "try"
    /\ retry.op \in RetriedOps
    /\ LET outcome == retry.outcomes[retry.attempt + 1] IN
       retry' =
         IF outcome = "ok"
         THEN [retry EXCEPT !.calls = @ + 1, !.pc = "done",
                            !.result = "returned"]
         ELSE IF outcome \in {"locked", "unable_to_open"}
                 /\ is_temporary(outcome, retry.attempt, retry.max_retries)
                 /\ retry.attempt < retry.max_retries - 1
         THEN [retry EXCEPT !.calls = @ + 1, !.pc = "sleep"]
         ELSE [retry EXCEPT !.calls = @ + 1, !.pc = "done",
                            !.result = "raised"]
    /\ UNCHANGED << fetch, clockVars, storeVars, notifierVars, pc, is_running,
                    lock, loopVars, orders, idx, chk, epoch, run >>

\* `time.sleep(current_delay); current_delay *= backoff; continue`
RetrySleep ==
    /\ retry.pc = "sleep"
    /\ retry' = [retry EXCEPT
                   !.slept = Append(@, retry.current_delay),
                   !.current_delay = NextDelay(@, retry.backoff),
                   !.attempt = @ + 1,
                   !.pc = "try"]
    /\ UNCHANGED << fetch, clockVars, storeVars, notifierVars, pc, is_running,
                    lock, loopVars, orders, idx, chk, epoch, run >>

\* A call of a store operation that carries no decorator: the function
\* itself runs, once
DirectCall ==
    /\ retry.pc = "try"
    /\ retry.op \notin RetriedOps
    /\ retry' = [retry EXCEPT
                   !.calls = @ + 1, !.pc = "done",
                   !.result = IF retry.outcomes[1] = "ok"
                              THEN "returned" ELSE "raised"]
    /\ UNCHANGED << fetch, clockVars, storeVars, notifierVars, pc, is_running,
                    lock, loopVars, orders, idx, chk, epoch, run >>

InitRetry ==
    /\ InitMonitor(NTP)
    /\ fetch = NoFetch
    /\ retry \in { r \in RetryInputs : Len(r.outcomes) = r.max_retries }

NextRetry ==
    \/ RetryCall
    \/ RetrySleep

SpecRetry == InitRetry /\ [][NextRetry]_vars

\* The store operations as the monitor calls them: each of StoreOps, wrapped
\* with the decorator's arguments where it is decorated, under every
\* sequence of outcomes of its calls
StoreInputs ==
    { [NoRetry EXCEPT !.op = op,
                      !.max_retries = DecoratorArgs.max_retries,
                      !.delay = DecoratorArgs.delay,
                      !.backoff = DecoratorArgs.backoff,
                      !.outcomes = o,
                      !.current_delay = DecoratorArgs.delay,
                      !.pc = "try"] :
        op \in StoreOps, o \in [1..DecoratorArgs.max_retries -> Outcomes] }

InitStore ==
    /\ InitMonitor(NTP)
    /\ fetch = NoFetch
    /\ retry \in StoreInputs

NextStore ==
    \/ RetryCall
    \/ RetrySleep
    \/ DirectCall

SpecStore == InitStore /\ [][NextStore]_vars

\* ------------------------------------------------------- the views fetch
\* nm_ids is the list 1..len of product ids. The ids in `shared` are cards
\* whose vendorCode in nm_to_vendor is one and the same code and for which
\* the analytics response carries no vendorCode (so the client keys them
\* "nmId_<id>"); the other ids have no vendorCode anywhere. A statistics map
\* is a function from keys to counts: key VendorKey is the shared vendor
\* code, key n > 0 is "nmId_<n>".
VendorKey == 0

\* openCount of product n on the report date
OpenCount(n) == n

\* The ids the fetch may pick `shared` from
SharedCandidates == {1, 2, batch_size + 1}

\* Retry-After values a 429 response can carry (absent: the default)
RetryAfterValues == {5, DefaultRetryAfter}

RECURSIVE SumCounts(_)
SumCounts(S) ==
    IF S = {} THEN 0
    ELSE LET n == CHOOSE x \in S : TRUE IN OpenCount(n) + SumCounts(S \ {n})

Max(S) == CHOOSE x \in S : \A y \in S : y <= x

\* `nm_ids[i:i+batch_size]` as the pair (first id, last id); i is 0-based
BatchSlice(i, len) == << i + 1, Min(i + batch_size, len) >>

\* get_product_views_detailed_for_date: `nm_ids = nm_ids[:20]`
Truncate(b) == << b[1], Min(b[2], b[1] + 19) >>

\* `range(0, len(nm_ids), batch_size)`: the next start index
NextBatchStart_SkipOne(i) == i + batch_size + 1
NextBatchStart(i) == i + batch_size

\* The key the monitor files product n under: nm_to_vendor.get(n), else
\* the client's key
FinalKey(n, shared) == IF n \in shared THEN VendorKey ELSE n

\* Multi-batch path: all_views_stats[k] = all_views_stats.get(k, 0) + value
\* for every item of the batch result
MergeBatch_Overwrite(all, b, shared) ==
    LET ids == b[1]..b[2]
        keys == { FinalKey(n, shared) : n \in ids } IN
      [k \in (DOMAIN all) \cup keys |->
         IF k \in keys
         THEN OpenCount(Max({ n \in ids : FinalKey(n, shared) = k }))
         ELSE all[k]]

MergeBatch(all, b, shared) ==
    LET ids == b[1]..b[2]
        keys == { FinalKey(n, shared) : n \in ids } IN
      [k \in (DOMAIN all) \cup keys |->
         (IF k \in DOMAIN all THEN all[k] ELSE 0)
           + SumCounts({ n \in ids : FinalKey(n, shared) = k })]

\* Single-request path: final_stats[vendor_code] = value for every item of
\* the result, in the order of the response (ascending id): a later item
\* replaces an earlier one filed under the same key
ReplaceKeys(b, shared) ==
    LET ids == b[1]..b[2]
        keys == { FinalKey(n, shared) : n \in ids } IN
      [k \in keys |-> OpenCount(Max({ n \in ids : FinalKey(n, shared) = k }))]

FetchInputs ==
    { [NoFetch EXCEPT !.len = L, !.shared = sh, !.pc = "start"] :
        L \in 1..MaxIds, sh \in SUBSET SharedCandidates }

\* `if len(nm_ids) > batch_size:` chooses the batch loop or the single call
FetchBegin ==
    /\ fetch.pc = "start"
    /\ fetch' =
         IF fetch.len > batch_size
         THEN [fetch EXCEPT !.pc = "batch", !.i = 0]
         ELSE [fetch EXCEPT !.pc = "request", !.batch = << 1, fetch.len >>,
                            !.chunks = << << 1, fetch.len >> >>,
                            !.attempt = 1]
    /\ UNCHANGED << retry, clockVars, storeVars, notifierVars, pc, is_running,
                    lock, loopVars, orders, idx, chk, epoch, run >>

\* Head of `for i in range(0, len(nm_ids), batch_size)`: the next slice is
\* handed to the client, or the loop is over and views_stats is the merge
BatchBegin ==
    /\ fetch.pc = "batch"
    /\ fetch' =
         IF fetch.i >= fetch.len
         THEN [fetch EXCEPT !.pc = "done", !.result = "returned",
                            !.batch = << 0, 0 >>, !.attempt = 0,
                            !.requests = 0, !.answers = << >>,
                            !.slept = << >>]
         ELSE [fetch EXCEPT !.pc = "request",
                            !.batch = BatchSlice(fetch.i, fetch.len),
                            !.chunks = Append(@, BatchSlice(fetch.i, fetch.len)),
                            !.attempt = 1, !.requests = 0, !.answers = << >>,
                            !.slept = << >>]
    /\ UNCHANGED << retry, clockVars, storeVars, notifierVars, pc, is_running,
                    lock, loopVars, orders, idx, chk, epoch, run >>

\* The client's `if attempt < max_retries`: another attempt is left
HasBudget_OneMore(attempt) == attempt <= client_max_retries
HasBudget(attempt) == attempt < client_max_retries

\* One turn of the client's `for attempt in range(1, max_retries + 1)`: the
\* POST answers 200, or 429 (sleep Retry-After), or fails (another status,
\* a timeout, a connection error: RequestException, sleep retry_delay), or
\* the answer cannot be processed (`except Exception: raise`)
ClientRequest ==
    /\ fetch.pc = "request"
    /\ \E status \in {"200", "429", "error", "unexpected"},
          retry_after \in RetryAfterValues :
         /\ (status # "429") => (retry_after = DefaultRetryAfter)
         /\ LET asked == [fetch EXCEPT !.requests = @ + 1,
                                       !.answers = Append(@, status)] IN
            fetch' =
              IF status = "200"
              THEN [asked EXCEPT !.pc = "merge"]
              ELSE IF status = "unexpected"
              THEN [asked EXCEPT !.pc = "batch_error"]
              ELSE IF status = "429"
              THEN IF HasBudget(fetch.attempt)
                   THEN [asked EXCEPT !.slept = Append(@, retry_after),
                                      !.attempt = @ + 1]
                   ELSE [asked EXCEPT !.slept = Append(@, retry_after),
                                      !.pc = "batch_error"]
              ELSE IF HasBudget(fetch.attempt)
                   THEN [asked EXCEPT !.slept = Append(@, retry_delay),
                                      !.attempt = @ + 1]
                   ELSE [asked EXCEPT !.pc = "batch_error"]
    /\ UNCHANGED << retry, clockVars, storeVars, notifierVars, pc, is_running,
                    lock, loopVars, orders, idx, chk, epoch, run >>

\* The client returned its statistics for the slice: the batch loop adds
\* them to all_views_stats; the single call renames the keys
BatchMerge ==
    /\ fetch.pc = "merge"
    /\ fetch' =
         IF fetch.len > batch_size
         THEN [fetch EXCEPT
                 !.views_stats = MergeBatch(@, Truncate(fetch.batch), fetch.shared),
                 !.i = NextBatchStart(@),
                 !.pc = "batch"]
         ELSE [fetch EXCEPT
                 !.views_stats = ReplaceKeys(Truncate(fetch.batch), fetch.shared),
                 !.pc = "done", !.result = "returned"]
    /\ UNCHANGED << retry, clockVars, storeVars, notifierVars, pc, is_running,
                    lock, loopVars, orders, idx, chk, epoch, run >>

\* The client raised: `except Exception as batch_error: continue` in the
\* batch loop; nothing catches it around the single call
BatchError ==
    /\ fetch.pc = "batch_error"
    /\ fetch' =
         IF fetch.len > batch_size
         THEN [fetch EXCEPT
                 !.failed = @ \cup {Len(fetch.chunks)},
                 !.i = NextBatchStart(@),
                 !.pc = "batch"]
         ELSE [fetch EXCEPT
                 !.failed = @ \cup {Len(fetch.chunks)},
                 !.pc = "done", !.result = "raised"]
    /\ UNCHANGED << retry, clockVars, storeVars, notifierVars, pc, is_running,
                    lock, loopVars, orders, idx, chk, epoch, run >>

InitFetch ==
    /\ InitMonitor(NTP)
    /\ retry = NoRetry
    /\ fetch \in FetchInputs

NextFetch ==
    \/ FetchBegin
    \/ BatchBegin
    \/ ClientRequest
    \/ BatchMerge
    \/ BatchError

SpecFetch == InitFetch /\ [][NextFetch]_vars

\* Report scheduling against the pace of the loop, with nothing failing: the
\* monitor starts at noon of day 1 and every store call, build and send
\* succeeds. While the loop is in its sleep loop it wakes every second and,
\* in the first seconds of 00:00 and 05:00, calls the report check at each
\* wake-up, so a five-second window does not go by without a check; while
\* the loop is in _process_orders (get_new_orders and the notifications are
\* network calls) any amount of time can go by.
Busy == {"loop", "order_check", "order_send", "order_mark", "run_done"}

WindowReport(now) ==
    IF InDailyWindow(now) THEN "daily"
    ELSE IF InViewsWindow(now) THEN "views" ELSE "none"

TickPaced ==
    /\ Tick
    /\ pc[Main] # "off"
    /\ (WindowReport(Now) # "none" /\ pc[Main] \notin Busy) =>
         get_setting(bot_settings, ReportKey(WindowReport(Now))) = DateStr(day)

SmoothStep ==
    \/ StartMonitor(Main) /\ pc'[Main] = "loop"
    \/ ProcessOrders(Main, { << >> })
    \/ AfterProcessOrders(Main)
    \/ Sleep(Main)
    \/ CheckBegin(Main)
    \/ CheckGetSetting(Main) /\ ~chk'[Main].exc
    \/ CheckClaim(Main) /\ ~chk'[Main].exc
    \/ CheckBuild(Main) /\ pc'[Main] = "chk_send"
    \/ CheckSend(Main) /\ chk'[Main].exit = "sent"
    \/ CheckFinally(Main)
    \/ CheckReturn(Main)

NextPaced ==
    \/ TickPaced
    \/ SmoothStep

SpecPaced == InitOrders /\ [][NextPaced]_vars

\* ================================================================ claims
Attempted == {"sent", "send_failed", "mark_failed"}   \* the Notifier was invoked

\* ---------------------------------------------------------------------- C1
\* C1: across any sequence of polls and under any pattern of Notifier and
\* store failures, send_order_notification succeeds at most once per order.
\* (Stated for a monitor process that was never killed and restarted, so that
\* only Notifier and store failures are in play.)
C1_DeliveredAtMostOnce ==
    epoch[Main] = 0 => \A o \in Orders : delivered[o] <= 1

\* ---------------------------------------------------------------------- C2
\* C2: a processed-order record for O exists only if an earlier
\* send_order_notification(O) returned true, and mark_order_as_processed(O)
\* is only ever about to be called right after such a success.
C2_MarkOnlyAfterSuccess ==
    /\ \A o \in Orders : processed_orders[o] # 0 => delivered[o] >= 1
    /\ pc[Main] = "order_mark" => delivered[orders[Main][idx[Main]]] >= 1

C2_Witness ==
    \E o1, o2 \in Orders :
      /\ processed_orders[o1] # 0 /\ delivered[o1] >= 1
      /\ processed_orders[o2] = 0 /\ run[Main].status[o2] = "send_failed"

\* ---------------------------------------------------------------------- C3
\* C3 (as stated): when a run of _process_orders is over, an order whose
\* notification failed in it has no processed record, and an order whose
\* notification failed in the previous run and which the source returned
\* again had the Notifier invoked for it in this run.
C3_RetriedNextPoll ==
    pc[Main] = "run_done" =>
      /\ \A o \in Orders :
           run[Main].status[o] = "send_failed" => processed_orders[o] = 0
      /\ \A o \in run[Main].prev_failed \cap Range(orders[Main]) :
           run[Main].status[o] \in Attempted

\* C3 (amended): the same, except that the order is not notified in the
\* next run when is_order_processed raised for it in that run; it still has
\* no processed record then.
C3_RetriedUnlessStoreFails ==
    pc[Main] = "run_done" =>
      /\ \A o \in Orders :
           run[Main].status[o] = "send_failed" => processed_orders[o] = 0
      /\ \A o \in run[Main].prev_failed \cap Range(orders[Main]) :
           /\ run[Main].status[o] \in Attempted \cup {"check_raised"}
           /\ run[Main].status[o] = "check_raised" => processed_orders[o] = 0

C3_Witness ==
    /\ pc[Main] = "run_done"
    /\ \E o \in run[Main].prev_failed \cap Range(orders[Main]) :
         run[Main].status[o] \in Attempted

\* ---------------------------------------------------------------------- C4
\* C4: a failure on one order does not abort the run: when the run is over
\* every order of the polled list has been handled, i.e. it was found
\* processed, or its is_order_processed raised, or the Notifier was invoked.
C4_NoAbort ==
    pc[Main] = "run_done" =>
      \A o \in Range(orders[Main]) :
        /\ run[Main].status[o] # "none"
        /\ run[Main].status[o] = "skipped" => processed_orders[o] # 0

C4_Witness ==
    /\ pc[Main] = "run_done"
    /\ \E i, j \in 1..Len(orders[Main]) :
         /\ i < j
         /\ run[Main].status[orders[Main][i]] \in
              {"check_raised", "send_failed", "mark_failed"}
         /\ run[Main].status[orders[Main][j]] \in Attempted

\* ---------------------------------------------------------------------- C5
\* C5: under fairness (the source keeps returning O, the Notifier and the
\* store each eventually succeed for O), once the monitoring loop runs every
\* order O is eventually delivered and marked processed.
C5_EventuallyDelivered ==
    (pc[Main] = "loop") ~>
      (\A o \in Orders : processed_orders[o] # 0 /\ delivered[o] >= 1)

\* O was delivered and marked in a run after a run in which its
\* notification had failed
C5_Witness ==
    /\ pc[Main] = "run_done"
    /\ \E o \in run[Main].prev_failed :
         /\ run[Main].status[o] = "sent"
         /\ processed_orders[o] # 0 /\ delivered[o] >= 1

\* ---------------------------------------------------------------------- C6
InClaimOrLater == {"chk_claim", "chk_build", "chk_send", "chk_rollback",
                   "chk_except"}

\* C6: for one report type and one day the report send succeeds at most
\* once; once it has succeeded, the date key holds today's date for the rest
\* of the day, and no later check of that day gets past the date test, so
\* none invokes the Notifier.
C6_ReportAtMostOncePerDay ==
    /\ \A r \in Reports, d \in Days : report_sent[r][d] <= 1
    /\ \A r \in Reports :
         report_sent[r][day] >= 1 =>
           get_setting(bot_settings, ReportKey(r)) = DateStr(day)
    /\ pc[Main] \in InClaimOrLater =>
         report_sent[chk[Main].report][chk[Main].today] = 0

\* A later check of the same process found the report of today already sent
C6_Witness ==
    /\ pc[Main] = "chk_done" /\ chk[Main].exit = "already_sent"
    /\ epoch[Main] = 0
    /\ report_sent[chk[Main].report][chk[Main].today] = 1

\* ---------------------------------------------------------------------- C7
\* C7: a date key that still holds an earlier day's date, left by that
\* day's successful report, does not prevent today's claim: no check inside
\* today's window loses the claim to such a value.
C7_StaleDateDoesNotBlock ==
    (pc[Main] = "chk_done" /\ chk[Main].exit = "claim_lost") =>
      ~ \E d \in Days :
          /\ d < chk[Main].today
          /\ report_sent[chk[Main].report][d] >= 1
          /\ get_setting(bot_settings, ReportKey(chk[Main].report)) = DateStr(d)

\* ---------------------------------------------------------------------- C8
\* C8: after a restart (memory reset, store preserved) that follows a report
\* claimed and sent today, no check of the fresh process sends that report
\* again: a report of a day is never sent by two incarnations, and a check of
\* a restarted process gets past the date test only if today's report has not
\* been sent.
C8_RestartSafe ==
    /\ \A x, y \in report_senders :
         (x[1] = y[1] /\ x[2] = y[2]) => x = y
    /\ (epoch[Main] >= 1 /\ pc[Main] \in InClaimOrLater) =>
         \A e \in 0..(epoch[Main] - 1) :
           <<chk[Main].report, chk[Main].today, Main, e>> \notin report_senders

\* A check of the restarted process, inside today's window, found the report
\* that the previous incarnation sent today
C8_Witness ==
    /\ epoch[Main] >= 1
    /\ pc[Main] = "chk_done" /\ chk[Main].exit = "already_sent"
    /\ <<chk[Main].report, chk[Main].today, Main, epoch[Main] - 1>>
         \in report_senders

\* ---------------------------------------------------------------------- C9
\* C9: whenever a check has claimed a report and the build or the send then
\* fails, the claim is rolled back: when that check returns the date key no
\* longer holds today's date.
C9_FailureRollsBack ==
    (pc[Main] = "chk_done" /\ chk[Main].claimed /\ chk[Main].failed) =>
      get_setting(bot_settings, ReportKey(chk[Main].report))
        # DateStr(chk[Main].today)

\* --------------------------------------------------------------------- C10
\* C10: after a failed send has rolled back the claim, a later check inside
\* the same window can claim the report again: no check loses the claim to
\* the value the rollback left.
C10_ReclaimAfterRollback ==
    (pc[Main] = "chk_done" /\ chk[Main].exit = "claim_lost") =>
      get_setting(bot_settings, ReportKey(chk[Main].report)) # ""

\* --------------------------------------------------------------------- C11
\* Process p holds a claim it won: past the set-if-absent, before any
\* rollback
Holding == {"chk_build", "chk_send"}

KeyOf(p) == get_setting(bot_settings, ReportKey(chk[p].report))

\* This step is process p winning the claim
WinsClaim(p) == pc[p] = "chk_claim" /\ chk'[p].claimed

\* C11: with two processes checking inside the same window, in every
\* interleaving of their get_setting / set-if-absent steps at most one wins
\* the claim for a report and day while no rollback has occurred: two
\* processes never hold the same claim, a process wins only when the key does
\* not hold today's date, and the report of a day is not sent by both.
C11_AtMostOneWinner ==
    /\ [](\A p, q \in Procs :
            (p # q /\ pc[p] \in Holding /\ pc[q] \in Holding) =>
              <<chk[p].report, chk[p].today>> # <<chk[q].report, chk[q].today>>)
    /\ [](\A p \in Procs : pc[p] \in Holding => KeyOf(p) = DateStr(chk[p].today))
    /\ [](\A r \in Reports, d \in Days : report_sent[r][d] <= 1)
    /\ [][\A p \in Procs :
            WinsClaim(p) => KeyOf(p) # DateStr(chk[p].today)]_vars

\* Both processes passed the date test; one won the claim and the other lost
C11_Witness ==
    \E p, q \in Procs :
      /\ p # q
      /\ pc[p] \in Holding
      /\ pc[q] = "chk_done" /\ chk[q].exit = "claim_lost"
      /\ chk[p].report = chk[q].report /\ chk[p].today = chk[q].today

\* --------------------------------------------------------------------- C12
\* C12: when start() returns before the monitoring loop (the chat id is
\* missing or a connectivity check failed) the monitor is Stopped with its
\* running flag false, and from Stopped no _process_orders cycle and no
\* report check ever runs.
C12_FailedStartStops ==
    [][/\ (pc[Main] = "off" /\ pc'[Main] = "stopped") => ~is_running'[Main]
       /\ pc[Main] = "stopped" => pc'[Main] \in {"stopped", "off"}]_vars

\* --------------------------------------------------------------------- C13
\* C13: when every cycle fails because the order source raises on every
\* poll, the running loop reaches Stopped (after max_consecutive_errors
\* failed cycles) instead of looping forever.
C13_BrokenSourceStops ==
    (pc[Main] = "loop") ~> (pc[Main] = "stopped")

\* --------------------------------------------------------------------- C14
\* C14: once is_running is false while the loop is Running, the loop does not
\* wait out the rest of the poll interval or of the cool-down (it starts no
\* further one-second sleep), and once Stopped no _process_orders run and no
\* report check happens.
C14_StopIsPrompt ==
    [][/\ (~is_running[Main] /\ pc[Main] \in {"sleep", "cooldown"}) =>
            total_slept'[Main] <= total_slept[Main]
       /\ pc[Main] = "stopped" => pc'[Main] \in {"stopped", "off"}]_vars

\* --------------------------------------------------------------------- C15
OtherReport(r) == IF r = "daily" THEN "views" ELSE "daily"

\* C15: the claim, send and rollback of one report leave the other report's
\* date key unchanged, and what happened to one report never decides the
\* other's check: a check is turned away at the date test or loses the claim
\* only on a value under its own key, and never finds the report flag taken.
C15_ReportsIndependent ==
    /\ [][pc[Main] \in InCheck =>
            get_setting(bot_settings', ReportKey(OtherReport(chk[Main].report)))
              = get_setting(bot_settings, ReportKey(OtherReport(chk[Main].report)))
         ]_vars
    /\ []((pc[Main] = "chk_done"
             /\ chk[Main].exit \in {"already_sent", "claim_lost"}) =>
            /\ ReportKey(chk[Main].report) \in DOMAIN bot_settings
            /\ ReportKey(chk[Main].report)
                 # ReportKey(OtherReport(chk[Main].report)))
    /\ [](chk[Main].exit # "locked")

\* The views report is claimed in its window on a day whose orders report
\* failed and was rolled back
C15_Witness ==
    /\ pc[Main] = "chk_build" /\ chk[Main].report = "views"
    /\ chk[Main].claimed
    /\ get_setting(bot_settings, ReportKey("daily")) = ""
    /\ get_setting(bot_settings, ReportKey("views")) = DateStr(day)

\* --------------------------------------------------------------------- C16
\* The wall clock is outside 00:00:00-00:00:04 and 05:00:00-05:00:04
OutsideWindows ==
    ~(Now[1] \in {0, 5} /\ Now[2] = 0 /\ Now[3] \in 0..4)

\* C16: a report check made at a time outside both windows is a no-op: it
\* goes no further than its window test, changes no setting, does not take
\* the report flag and does not invoke the Notifier.
C16_OutsideIsNoOp ==
    /\ [][(pc[Main] = "chk_begin" /\ OutsideWindows) =>
            /\ pc'[Main] \in {"chk_begin", "chk_done", "off", "stopped"}
            /\ bot_settings' = bot_settings
            /\ report_sent' = report_sent
            /\ ~lock'[Main]]_vars
    /\ []((pc[Main] = "chk_done" /\ chk[Main].exit = "outside") =>
            ~lock[Main] /\ ~chk[Main].claimed)

\* A check made at 00:00:05, just past the window, with the orders report of
\* the day not sent, returned without acting
C16_Witness ==
    /\ pc[Main] = "chk_done" /\ chk[Main].exit = "outside"
    /\ Now = <<0, 0, 5>>
    /\ report_sent["daily"][day] = 0
    /\ bot_settings = << >>

\* --------------------------------------------------------------------- C17
\* The order the per-order loop is at
CurrentOrder == orders[Main][idx[Main]]

\* C17: an order that already has a processed record is skipped: the
\* Notifier is not invoked for it and its record is not rewritten, while the
\* other orders of the same poll are still handled.
C17_ProcessedIsSkipped ==
    /\ [](pc[Main] \in {"order_send", "order_mark"} =>
            processed_orders[CurrentOrder] = 0)
    /\ [][(pc[Main] = "order_check" /\ processed_orders[CurrentOrder] # 0) =>
            /\ pc'[Main] # "order_send"
            /\ delivered' = delivered
            /\ processed_orders' = processed_orders]_vars
    /\ [](pc[Main] = "run_done" =>
            \A o \in Range(orders[Main]) :
              /\ run[Main].status[o] = "skipped" => delivered[o] >= 1
              /\ (processed_orders[o] = 0 /\ run[Main].status[o] # "check_raised")
                   => run[Main].status[o] \in Attempted)

\* A poll returned a processed order, which was skipped, and an unprocessed
\* one, for which the Notifier was invoked
C17_Witness ==
    /\ pc[Main] = "run_done"
    /\ \E a, b \in Range(orders[Main]) :
         /\ run[Main].status[a] = "skipped" /\ delivered[a] = 1
         /\ run[Main].status[b] \in Attempted

\* --------------------------------------------------------------------- C18
\* C18: once a processed-order record exists for O it stays in the store
\* with its processed_at unchanged, under every sequence of operations of
\* the monitor, a second process racing on the same order included.
C18_RecordImmutable ==
    [][\A o \in Orders :
         processed_orders[o] # 0 => processed_orders'[o] = processed_orders[o]]_vars

\* --------------------------------------------------------------------- C19
RECURSIVE Pow(_, _)
Pow(b, k) == IF k = 0 THEN 1 ELSE b * Pow(b, k - 1)

\* The wrapped function raised "locked" at each of its first n calls
LockedUpTo(n) == \A i \in 1..n : retry.outcomes[i] = "locked"

\* C19: a store operation that raises a locked error on every attempt is
\* attempted exactly max_retries times, with waits delay, delay*backoff,
\* delay*backoff^2, ... between successive attempts, and then the error
\* propagates; if an attempt succeeds (after locked errors only) its result
\* is returned and no further attempt is made.
C19_RetryBackoff ==
    /\ retry.calls <= retry.max_retries
    /\ (retry.pc = "done" /\ LockedUpTo(retry.max_retries)) =>
         /\ retry.result = "raised"
         /\ retry.calls = retry.max_retries
         /\ retry.slept =
              [i \in 1..(retry.max_retries - 1) |->
                 retry.delay * Pow(retry.backoff, i - 1)]
    /\ \A k \in 1..retry.max_retries :
         (retry.pc = "done" /\ LockedUpTo(k - 1) /\ retry.outcomes[k] = "ok") =>
           /\ retry.result = "returned"
           /\ retry.calls = k
           /\ Len(retry.slept) = k - 1

\* All max_retries >= 3 attempts raised locked and the error propagated
C19_Witness ==
    /\ retry.pc = "done" /\ retry.result = "raised"
    /\ retry.max_retries >= 3 /\ LockedUpTo(retry.max_retries)
    /\ retry.backoff >= 2
    /\ Len(retry.slept) = retry.max_retries - 1

\* --------------------------------------------------------------------- C20
\* C20: a store operation that raises a permanent error (the database file
\* cannot be opened, a permissions problem, any non-lock error) is attempted
\* exactly once: the error propagates immediately, with no retry and no wait.
C20_PermanentFailsAtOnce ==
    (retry.pc # "idle" /\ retry.calls >= 1
       /\ retry.outcomes[1] \in {"unable_to_open", "other"}) =>
      /\ retry.pc = "done" /\ retry.result = "raised"
      /\ retry.calls = 1
      /\ retry.slept = << >>

\* --------------------------------------------------------------------- C21
\* C21: for an id list of length L >= 1 and cap 20 the views fetch issues
\* exactly ceil(L/20) chunk requests, every chunk has at most 20 ids, and
\* the chunks are consecutive slices that cover every id exactly once.
C21_ChunksCoverOnce ==
    /\ \A k \in 1..Len(fetch.chunks) :
         /\ fetch.chunks[k][1] <= fetch.chunks[k][2]
         /\ fetch.chunks[k][2] - fetch.chunks[k][1] + 1 <= 20
         /\ fetch.chunks[k][1] = (IF k = 1 THEN 1 ELSE fetch.chunks[k - 1][2] + 1)
         /\ Truncate(fetch.chunks[k]) = fetch.chunks[k]
    /\ fetch.pc = "done" =>
         /\ Len(fetch.chunks) = (fetch.len + 19) \div 20
         /\ fetch.chunks[Len(fetch.chunks)][2] = fetch.len

\* A fetch of three chunks, the last one short, is over
C21_Witness ==
    /\ fetch.pc = "done" /\ fetch.len > 40
    /\ Len(fetch.chunks) = 3
    /\ fetch.chunks[3][2] - fetch.chunks[3][1] + 1 < 20

\* --------------------------------------------------------------------- C22
\* The ids of the chunks whose request succeeded
FetchedIds ==
    UNION { fetch.chunks[k][1]..fetch.chunks[k][2] :
              k \in (1..Len(fetch.chunks)) \ fetch.failed }

\* C22: when the fetch has returned, the count under every key of the
\* merged result is the sum of the counts of all the fetched products filed
\* under that key, whether the list needed one chunk or several.
C22_MergeSums ==
    (fetch.pc = "done" /\ fetch.result = "returned") =>
      \A k \in DOMAIN fetch.views_stats :
        fetch.views_stats[k] =
          SumCounts({ n \in FetchedIds : FinalKey(n, fetch.shared) = k })

\* --------------------------------------------------------------------- C23
\* C23: a chunk whose request failed for good is skipped, not fatal: the
\* fetch still returns, for every list length (a list that fits in a single
\* chunk included), with the data of the chunks that succeeded and without
\* the failed chunk's ids.
C23_FailedChunkSkipped ==
    fetch.pc = "done" =>
      /\ fetch.result = "returned"
      /\ DOMAIN fetch.views_stats = { FinalKey(n, fetch.shared) : n \in FetchedIds }

\* --------------------------------------------------------------------- C24
\* C24: at every cycle boundary the consecutive-failure counter equals the
\* number of cycles that raised since the last cycle that completed without
\* error, so report checks that fail cycle after cycle accumulate in it.
C24_CounterCountsFailedCycles ==
    (pc[Main] \in {"loop", "cooldown"} /\ is_running[Main]) =>
      Min(consecutive_errors[Main], MaxFailedCycles) = run[Main].failed_cycles

\* --------------------------------------------------------------------- C25
\* C25: when a report was claimed and building it gathered no data, the
\* failure does not disappear: when the check returns, the claim has been
\* rolled back (the date key no longer holds today's date) or the failure
\* is on its way to the loop's failure counter.
C25_EmptyBuildAccounted ==
    (pc[Main] = "chk_done" /\ chk[Main].claimed /\ chk[Main].exit = "no_data") =>
      \/ get_setting(bot_settings, ReportKey(chk[Main].report))
           # DateStr(chk[Main].today)
      \/ chk[Main].exc

\* --------------------------------------------------------------------- C26
\* C26: every store operation the monitor uses retries on a transient lock
\* error: when its first call raises "database is locked" and the next one
\* would succeed, the operation is called again and returns instead of
\* failing the caller on the first attempt.
C26_EveryOpRetries ==
    (retry.pc = "done"
       /\ retry.outcomes[1] = "locked" /\ retry.outcomes[2] = "ok") =>
      /\ retry.result = "returned"
      /\ retry.calls = 2

\* --------------------------------------------------------------------- C27
\* The window of report r of the current day is over
WindowOver(r) ==
    IF r = "daily" THEN Now[1] > 0 \/ Now[3] >= WindowSeconds
    ELSE Now[1] > 5 \/ (Now[1] = 5 /\ Now[3] >= WindowSeconds)

\* C27: a poll cycle that is running when a report window opens, even one
\* that overlaps the whole window, does not make the day's report missed:
\* with the monitor running since the day before and nothing failing, once
\* a window is over and no check is still at work its report has been sent.
C27_BusyPollDoesNotMiss ==
    \A r \in Reports :
      (day >= 2 /\ WindowOver(r) /\ pc[Main] \notin InCheck \cup {"off"}) =>
        report_sent[r][day] >= 1

\* --------------------------------------------------------------------- C28
\* C28: for one chunk, a 429 answer makes the client sleep for the
\* Retry-After it carries (default 30 s) and request the same chunk again;
\* the requests for a chunk never exceed max_retries (3); the chunk raises
\* only when every attempt made was rate-limited or failed; and a 429 on a
\* chunk never fails a multi-chunk fetch.
C28_RateLimitRetriesChunk ==
    /\ [](fetch.requests <= 3)
    /\ [](\A k \in 1..Len(fetch.slept) :
            fetch.answers[k] = "429" => fetch.slept[k] \in RetryAfterValues)
    /\ [](fetch.pc = "request" =>
            /\ fetch.attempt = fetch.requests + 1
            /\ Len(fetch.slept) = fetch.requests)
    /\ [](fetch.pc = "batch_error" =>
            \A k \in 1..Len(fetch.answers) : fetch.answers[k] # "200")
    /\ []((fetch.pc = "done" /\ fetch.len > batch_size) =>
            fetch.result = "returned")
    /\ [][(fetch.pc = "request" /\ fetch'.pc = "request") =>
            fetch'.batch = fetch.batch]_vars

\* In a multi-chunk fetch whose first chunk failed, the second chunk was
\* rate-limited once without a Retry-After header, slept the default and
\* succeeded at its second request
C28_Witness ==
    /\ fetch.pc = "merge" /\ Len(fetch.chunks) = 2 /\ 1 \in fetch.failed
    /\ fetch.answers = << "429", "200" >>
    /\ fetch.slept = << DefaultRetryAfter >>

\* --------------------------------------------------------------------- C29
\* The positions of a check between taking the report flag and its `finally`
LockPhase == {"chk_build", "chk_send", "chk_rollback", "chk_except",
              "chk_finally"}

\* C29: the in-process report flag is true exactly while a check is in its
\* build/send phase; a check that finds it true returns without claiming or
\* sending; and the flag is false again whenever a check has returned, on
\* success, failed send or exception alike.
C29_FlagWhileBuilding ==
    /\ lock[Main] <=> pc[Main] \in LockPhase
    /\ pc[Main] = "chk_done" => ~lock[Main]
    /\ chk[Main].exit = "locked" =>
         ~chk[Main].claimed /\ pc[Main] = "chk_done"

\* A check whose build failed and whose rollback raised has returned, and
\* the flag is free
C29_Witness ==
    /\ pc[Main] = "chk_done" /\ chk[Main].exit = "rollback_failed"
    /\ chk[Main].claimed /\ ~lock[Main]

\* --------------------------------------------------------------------- C30
\* C30: a report is sent only under a held claim: a check is at the report
\* send only after it got true from the set-if-absent claim in that same
\* check, with the report's key holding today's date, and only such a step
\* adds to the reports sent.
C30_SendOnlyUnderClaim ==
    /\ [](\A p \in Procs :
            pc[p] = "chk_send" =>
              /\ chk[p].claimed
              /\ get_setting(bot_settings, ReportKey(chk[p].report))
                   = DateStr(chk[p].today))
    /\ [][report_sent' # report_sent =>
            \E p \in Procs :
              /\ pc[p] = "chk_send" /\ chk[p].claimed
              /\ report_sent'[chk[p].report][chk[p].today]
                   # report_sent[chk[p].report][chk[p].today]]_vars

\* The views report was sent by the check that claimed it, on a day whose
\* orders report had been sent too
C30_Witness ==
    /\ pc[Main] = "chk_finally" /\ chk[Main].exit = "sent"
    /\ chk[Main].report = "views" /\ chk[Main].claimed
    /\ report_sent["views"][day] = 1 /\ report_sent["daily"][day] = 1
    /\ get_setting(bot_settings, ReportKey("views")) = DateStr(day)

====
